---- MODULE Spec2Model ----
(***************************************************************************)
(* Route playback of the vehicle tracker: the VehicleMap React component   *)
(* of src/src/VehicleMap.jsx (segment interpolation on a 100 ms interval)  *)
(* and its waypoint-stepping variant src/unnamed/part_000.                 *)
(*                                                                         *)
(* One action is one event of the JavaScript event loop (a click, an       *)
(* interval callback, the settling of the load promise, the unmount)       *)
(* together with the React commit it causes: the state updates of the      *)
(* handler are batched, the component re-renders, and the effects whose    *)
(* dependencies changed run their previous cleanup and then their body.    *)
(*                                                                         *)
(* Coordinates are integers in units of 1/(100000 * steps) degree, so that *)
(* every waypoint given with 5 decimals (the precision of the encoded      *)
(* polyline) is a multiple of steps and the division by steps in the       *)
(* interpolation is exact.  Waypoint timestamps are carried by the code    *)
(* but never read by it; the model leaves them out.                        *)
(***************************************************************************)
EXTENDS Integers, Sequences, FiniteSets, TLC

VARIABLES
    component,       \* which source file's VehicleMap is mounted
    mounted,         \* the component is mounted
    loaded,          \* the load promise has settled
    routeData,       \* useState([])
    currentIndex,    \* useState(0)
    interpolatedPos, \* useState({lat, lng}) (VehicleMap.jsx only)
    isPlaying,       \* useState(false)
    intervalRef,     \* intervalRef.current: a timer id, Null when never set
    timers,          \* armed intervals: timer id -> closure of the callback
    hasCleanup,      \* the last run of the timer effect returned a cleanup
    rotationAngle,   \* rotation of the Leaflet marker (setRotationAngle)
    last,            \* history: the last event handled
    fresh,           \* history: no command and no tick has happened yet
    ticks,           \* history: ticks since a Start issued in the fresh
                     \* state, -1 when another command intervened
    segTicks         \* history: ticks since the current segment was
                     \* entered, -1 when the run does not count them

vars == <<component, mounted, loaded, routeData, currentIndex,
          interpolatedPos, isPlaying, intervalRef, timers, hasCleanup,
          rotationAngle, last, fresh, ticks, segTicks>>

\* Longest primary payload (number of records) the load is tried with.
MaxLen == 4

\* const steps = 20
steps == 20

\* A coordinate given in 1e-5 degrees, in model units.
Units(e5) == e5 * steps

\* const INITIAL_CENTER = [17.4, 78.495]
INITIAL_CENTER == <<Units(1740000), Units(7849500)>>

Null == 0

Abs(x) == IF x < 0 THEN -x ELSE x

RECURSIVE Gcd(_, _)
Gcd(a, b) == IF b = 0 THEN a ELSE Gcd(b, a % b)

Point(lat, lng) == [lat |-> lat, lng |-> lng]

\* routeData[i] with the JavaScript index i; Undefined out of range.
Defined(rt, i) == i >= 0 /\ i < Len(rt)
At(rt, i) == rt[i + 1]

(***************************************************************************)
(* polyline.decode(encoded): the encoded string as character codes, read   *)
(* five bits at a time; each value is a zig-zag encoded delta in 1e-5      *)
(* degrees, latitude then longitude.                                       *)
(***************************************************************************)
encoded ==
    << 115, 118, 117, 95, 71, 111, 116, 115, 115, 80, 112, 64, 96, 64,
       110, 64, 114, 64, 114, 65, 106, 65, 96, 64, 102, 64, 120, 64, 114,
       64, 108, 64, 96, 64, 102, 64, 112, 65, 96, 65, 96, 64, 108, 64,
       112, 64, 118, 64, 102, 64, 118, 64, 112, 64, 114, 64, 120, 64, 98,
       64, 100, 65, 124, 64, 96, 64, 108, 64, 106, 64 >>

RECURSIVE ReadValue(_, _, _, _)
\* One varint starting at s[i]: [result, next index].
ReadValue(s, i, mul, acc) ==
    LET byte == s[i] - 63
        res  == acc + (byte % 32) * mul
    IN  IF byte >= 32 /\ i < Len(s)
        THEN ReadValue(s, i + 1, mul * 32, res)
        ELSE [result |-> res, next |-> i + 1]

ZigZag(r) == IF r % 2 = 1 THEN -(r \div 2) - 1 ELSE r \div 2

RECURSIVE DecodeFrom(_, _, _, _)
DecodeFrom(s, i, lat, lng) ==
    IF i > Len(s) THEN <<>>
    ELSE LET a    == ReadValue(s, i, 1, 0)
             lat2 == lat + ZigZag(a.result)
             b    == ReadValue(s, a.next, 1, 0)
             lng2 == lng + ZigZag(b.result)
         IN  <<Point(Units(lat2), Units(lng2))>>
                 \o DecodeFrom(s, b.next, lat2, lng2)

decoded == DecodeFrom(encoded, 1, 0, 0)

(***************************************************************************)
(* getRotationAngle(prev, next) = atan2(dx, dy) * 180 / PI.  The angle is  *)
(* represented by the primitive integer vector <<dx, dy>> / gcd of its     *)
(* direction: two direction vectors have the same atan2 exactly when they  *)
(* have the same primitive vector.  atan2(0, 0) is 0, the angle of due     *)
(* north <<0, 1>>.                                                         *)
(***************************************************************************)
Angle(dx, dy) ==
    IF dx = 0 /\ dy = 0 THEN <<0, 1>>
    ELSE LET g == Gcd(Abs(dx), Abs(dy)) IN <<dx \div g, dy \div g>>

getRotationAngle(prev, next) ==
    LET dx == next.lng - prev.lng
        dy == next.lat - prev.lat
    IN  Angle(dx, dy)

ZeroAngle == Angle(0, 1)

(***************************************************************************)
(* Route source.                                                           *)
(***************************************************************************)
\* Waypoints the primary payloads are built from: the spec's 17.40/78.49
\* and 17.41/78.50 corner points.
PrimaryPoints ==
    { Point(Units(1740000), Units(7849000)),
      Point(Units(1740000), Units(7850000)),
      Point(Units(1741000), Units(7849000)),
      Point(Units(1741000), Units(7850000)) }

RECURSIVE SeqsUpTo(_, _)
SeqsUpTo(S, n) ==
    IF n = 0 THEN {<<>>}
    ELSE LET shorter == SeqsUpTo(S, n - 1)
         IN  shorter \cup { Append(q, x) : q \in { r \in shorter : Len(r) = n - 1 }, x \in S }

\* What the fetch of public/dummy-route.json can do: the promise rejects
\* (network error, a body that is not JSON, a JSON value without .map), or
\* it yields an array of records.
Responses ==
    { [ok |-> FALSE, data |-> <<>>] }
        \cup { [ok |-> TRUE, data |-> d] : d \in SeqsUpTo(PrimaryPoints, MaxLen) }

\* fetchRouteData: the mapped payload, or the decoded polyline from the catch.
fetchRouteData(resp) == IF resp.ok THEN resp.data ELSE decoded

\* x || d for a number x: 0 is falsy.
OrElse(x, d) == IF x = 0 THEN d ELSE x

\* setInterpolatedPos([data[0]?.lat || C[0], data[0]?.lng || C[1]]): an array,
\* so the stored value has elements 0 and 1 and no lat / lng property.
LoadedPos(data) ==
    [ shape |-> "array",
      a |-> IF Len(data) = 0 THEN INITIAL_CENTER[1]
            ELSE OrElse(data[1].lat, INITIAL_CENTER[1]),
      b |-> IF Len(data) = 0 THEN INITIAL_CENTER[2]
            ELSE OrElse(data[1].lng, INITIAL_CENTER[2]) ]

ObjectPos(lat, lng) == [shape |-> "object", a |-> lat, b |-> lng]

\* interpolatedPos?.lat !== undefined && interpolatedPos?.lng !== undefined
HasLatLng(pos) == pos.shape = "object"

(***************************************************************************)
(* Rendering: the Marker exists, and markerRef.current is set, exactly     *)
(* when the JSX renders it.                                                *)
(***************************************************************************)
MarkerRendered(comp, rt, pos) ==
    IF comp = "VehicleMap" THEN Len(rt) > 0 /\ HasLatLng(pos)
    ELSE Len(rt) > 0

\* The positions of the traveled Polyline of VehicleMap.jsx:
\* routeData.slice(0, currentIndex + 1).map((p) => [p.lat, p.lng])
TraveledPath(rt, ci) ==
    LET upTo == IF ci + 1 < Len(rt) THEN ci + 1 ELSE Len(rt)
    IN  [j \in 1..upTo |-> <<rt[j].lat, rt[j].lng>>]

\* The position of the Marker: [interpolatedPos.lat, interpolatedPos.lng]
MarkerPosition(pos) == <<pos.a, pos.b>>

(***************************************************************************)
(* Timers.                                                                 *)
(***************************************************************************)
\* clearInterval(id)
clearInterval(tm, id) == [i \in (DOMAIN tm) \ {id} |-> tm[i]]

\* The id setInterval returns: one that no armed timer and no reference holds.
NewId(tm, ref) ==
    CHOOSE i \in 1..(Cardinality(DOMAIN tm) + 2) :
        /\ i \notin DOMAIN tm
        /\ i # ref
        /\ \A j \in 1..(i - 1) : j \in DOMAIN tm \/ j = ref

\* return () => clearInterval(intervalRef.current), when the last run of the
\* effect returned it (EffectCleanupNoClear: a cleanup that clears nothing).
EffectCleanupNoClear(tm, ref, hc) == tm
EffectCleanup(tm, ref, hc) == IF hc THEN clearInterval(tm, ref) ELSE tm

\* The closure of the interval callback of VehicleMap.jsx.
Closure(rt, ci) ==
    [start |-> At(rt, ci), end |-> At(rt, ci + 1), n |-> Len(rt), step |-> 0]

\* The animation effect with its !isPlaying test left out.
AnimationEffectAnyState(ip, ci, rt, tm, ref, hc) ==
    LET cleared == EffectCleanup(tm, ref, hc)
        idle    == [timers |-> cleared, intervalRef |-> ref, hasCleanup |-> FALSE]
    IN  IF Len(rt) < 2 THEN idle
        ELSE IF ~Defined(rt, ci) \/ ~Defined(rt, ci + 1) THEN idle
        ELSE LET id == NewId(cleared, ref)
             IN  [ timers |-> cleared @@ (id :> Closure(rt, ci)),
                   intervalRef |-> id,
                   hasCleanup |-> TRUE ]

\* The animation effect of VehicleMap.jsx, run because a dependency changed.
AnimationEffect(ip, ci, rt, tm, ref, hc) ==
    LET cleared == EffectCleanup(tm, ref, hc)
        idle    == [timers |-> cleared, intervalRef |-> ref, hasCleanup |-> FALSE]
    IN  IF ~ip \/ Len(rt) < 2 THEN idle
        ELSE IF ~Defined(rt, ci) \/ ~Defined(rt, ci + 1) THEN idle
        ELSE LET id == NewId(cleared, ref)
             IN  [ timers |-> cleared @@ (id :> Closure(rt, ci)),
                   intervalRef |-> id,
                   hasCleanup |-> TRUE ]

\* The closure of the interval callback of part_000 captures nothing it reads.
Closure0 == [step |-> 0]

\* The timer effect with its currentIndex < routeData.length - 1 test left out.
TimerEffect0Unbounded(ip, ci, rt, tm, ref, hc) ==
    LET cleared == EffectCleanup(tm, ref, hc)
    IN  IF ip /\ Len(rt) > 0
        THEN LET id == NewId(cleared, ref)
             IN  [ timers |-> cleared @@ (id :> Closure0),
                   intervalRef |-> id,
                   hasCleanup |-> TRUE ]
        ELSE [timers |-> cleared, intervalRef |-> ref, hasCleanup |-> TRUE]

\* The timer effect of part_000.
TimerEffect0(ip, ci, rt, tm, ref, hc) ==
    LET cleared == EffectCleanup(tm, ref, hc)
    IN  IF ip /\ Len(rt) > 0 /\ ci < Len(rt) - 1
        THEN LET id == NewId(cleared, ref)
             IN  [ timers |-> cleared @@ (id :> Closure0),
                   intervalRef |-> id,
                   hasCleanup |-> TRUE ]
        ELSE [timers |-> cleared, intervalRef |-> ref, hasCleanup |-> TRUE]

\* The rotation effect (the same in both files): the angle the marker has
\* after the effect ran.
RotationEffect(ci, rt, marker, angle) ==
    IF ~marker \/ ci = 0 \/ ci >= Len(rt) THEN angle
    ELSE IF ~Defined(rt, ci - 1) \/ ~Defined(rt, ci) THEN angle
    ELSE getRotationAngle(At(rt, ci - 1), At(rt, ci))

\* The commit after an event: the new state and the effects whose
\* dependencies [isPlaying, currentIndex, routeData] changed.
Commit(ip, ci, rt, pos, tm, newRoute) ==
    LET animDeps == ip # isPlaying \/ ci # currentIndex \/ newRoute
        rotDeps  == ci # currentIndex \/ newRoute
        eff      == IF ~animDeps
                    THEN [timers |-> tm, intervalRef |-> intervalRef,
                          hasCleanup |-> hasCleanup]
                    ELSE IF component = "VehicleMap"
                    THEN AnimationEffect(ip, ci, rt, tm, intervalRef, hasCleanup)
                    ELSE TimerEffect0(ip, ci, rt, tm, intervalRef, hasCleanup)
    IN  /\ isPlaying' = ip
        /\ currentIndex' = ci
        /\ routeData' = rt
        /\ interpolatedPos' = pos
        /\ timers' = eff.timers
        /\ intervalRef' = eff.intervalRef
        /\ hasCleanup' = eff.hasCleanup
        /\ rotationAngle' =
               IF rotDeps
               THEN RotationEffect(ci, rt, MarkerRendered(component, rt, pos),
                                   rotationAngle)
               ELSE rotationAngle

(***************************************************************************)
(* Initial state: the component has mounted and its effects have run once  *)
(* on the empty route; the load is in flight.                              *)
(***************************************************************************)
Init ==
    /\ component \in {"VehicleMap", "part_000"}
    /\ mounted = TRUE
    /\ loaded = FALSE
    /\ routeData = <<>>
    /\ currentIndex = 0
    /\ interpolatedPos = ObjectPos(INITIAL_CENTER[1], INITIAL_CENTER[2])
    /\ isPlaying = FALSE
    /\ intervalRef = Null
    /\ timers = <<>>
    /\ hasCleanup = (component = "part_000")
    /\ rotationAngle = ZeroAngle
    /\ last = "mount"
    /\ fresh = TRUE
    /\ ticks = -1
    /\ segTicks = -1

\* The event a click on the Start/Pause button is: a Start that follows a
\* Pause is a resume.
ToggleEvent ==
    IF isPlaying THEN "pause" ELSE IF last = "pause" THEN "resume" ELSE "start"

\* A tick count is tracked up to here; every route ends before it.
TickCap == steps * (IF MaxLen > Len(decoded) THEN MaxLen ELSE Len(decoded))

CountTick(t) == IF t < 0 THEN t ELSE IF t < TickCap THEN t + 1 ELSE t

\* The ticks since the segment was entered, after a tick: a tick that
\* changes currentIndex enters the next segment.  Counted up to steps + 1.
CountSegTick(t, entered) ==
    IF t < 0 THEN t
    ELSE IF entered THEN 0
    ELSE IF t > steps THEN t ELSE t + 1

\* The same after a Reset, which enters segment 0.
ResetSegTick(t) == IF t < 0 THEN t ELSE 0

(***************************************************************************)
(* VehicleMap.jsx                                                          *)
(***************************************************************************)
\* The load effect storing its data with no effect re-run by the new route.
loadWithoutEffects ==
    /\ component = "VehicleMap"
    /\ ~loaded
    /\ \E resp \in Responses :
         LET data == fetchRouteData(resp)
         IN  IF mounted
             THEN /\ routeData' = data
                  /\ interpolatedPos' = LoadedPos(data)
                  /\ UNCHANGED <<isPlaying, currentIndex, timers, intervalRef,
                                 hasCleanup, rotationAngle>>
             ELSE UNCHANGED <<isPlaying, currentIndex, routeData, interpolatedPos,
                              timers, intervalRef, hasCleanup, rotationAngle>>
    /\ loaded' = TRUE
    /\ last' = "load"
    /\ UNCHANGED <<component, mounted, fresh, ticks, segTicks>>

\* The load effect: fetchRouteData settles (it never rejects).  On an
\* unmounted component the state updates are dropped.
load ==
    /\ component = "VehicleMap"
    /\ ~loaded
    /\ \E resp \in Responses :
         LET data == fetchRouteData(resp)
         IN  IF mounted
             THEN Commit(isPlaying, currentIndex, data, LoadedPos(data), timers, TRUE)
             ELSE UNCHANGED <<isPlaying, currentIndex, routeData, interpolatedPos,
                              timers, intervalRef, hasCleanup, rotationAngle>>
    /\ loaded' = TRUE
    /\ last' = "load"
    /\ UNCHANGED <<component, mounted, fresh, ticks, segTicks>>

\* const togglePlay = () => setIsPlaying((p) => !p)
togglePlay ==
    /\ component = "VehicleMap"
    /\ mounted
    /\ Commit(~isPlaying, currentIndex, routeData, interpolatedPos, timers, FALSE)
    /\ last' = ToggleEvent
    /\ fresh' = FALSE
    /\ ticks' = IF fresh /\ loaded /\ ~isPlaying THEN 0 ELSE -1
    /\ segTicks' = segTicks
    /\ UNCHANGED <<component, mounted, loaded>>

\* The position resetSimulation stores (ResetPosKept: stores none).
ResetPosKept(rt, pos) == pos
ResetPos(rt, pos) ==
    IF Len(rt) > 0 THEN ObjectPos(rt[1].lat, rt[1].lng) ELSE pos

resetSimulation ==
    /\ component = "VehicleMap"
    /\ mounted
    /\ Commit(FALSE, 0, routeData, ResetPos(routeData, interpolatedPos), timers, FALSE)
    /\ last' = "reset"
    /\ fresh' = FALSE
    /\ ticks' = -1
    /\ segTicks' = ResetSegTick(segTicks)
    /\ UNCHANGED <<component, mounted, loaded>>

\* start.lat + ((end.lat - start.lat) * step) / steps, and the same for lng
Interpolate(start, end, step) ==
    ObjectPos(start.lat + ((end.lat - start.lat) * step) \div steps,
              start.lng + ((end.lng - start.lng) * step) \div steps)

\* setCurrentIndex((prev) => prev + 1 < routeData.length - 1 ? prev + 1 : prev)
\* (NextIndexUnclamped: the updater without its bound).
NextIndexUnclamped(prev, n) == prev + 1
NextIndex(prev, n) == IF prev + 1 < n - 1 THEN prev + 1 ELSE prev

\* if (step >= steps), and the same test one step late.
SegmentDoneLate(step) == step > steps
SegmentDone(step) == step >= steps

\* The value of the callback's local step after the callback.
StepAfter(step) == IF SegmentDone(step) THEN 0 ELSE step

\* One firing of the interval callback of timer id.
Tick(id) ==
    /\ component = "VehicleMap"
    /\ id \in DOMAIN timers
    /\ LET c    == timers[id]
           step == c.step + 1
           tm   == [timers EXCEPT ![id].step = StepAfter(step)]
       IN  IF mounted
           THEN Commit(isPlaying,
                       IF SegmentDone(step) THEN NextIndex(currentIndex, c.n)
                       ELSE currentIndex,
                       routeData, Interpolate(c.start, c.end, step), tm, FALSE)
           ELSE /\ timers' = tm
                /\ UNCHANGED <<isPlaying, currentIndex, routeData, interpolatedPos,
                               intervalRef, hasCleanup, rotationAngle>>
    /\ last' = "tick"
    /\ fresh' = FALSE
    /\ ticks' = CountTick(ticks)
    /\ segTicks' = CountSegTick(segTicks, currentIndex' # currentIndex)
    /\ UNCHANGED <<component, mounted, loaded>>

\* Whichever armed interval is due fires.
Ticking == \E id \in DOMAIN timers : Tick(id)

\* The component unmounts: the cleanup of the timer effect runs.
Unmount ==
    /\ mounted
    /\ mounted' = FALSE
    /\ timers' = EffectCleanup(timers, intervalRef, hasCleanup)
    /\ last' = "unmount"
    /\ UNCHANGED <<component, loaded, routeData, currentIndex, interpolatedPos,
                   isPlaying, intervalRef, hasCleanup, rotationAngle, fresh, ticks,
                   segTicks>>

(***************************************************************************)
(* src/unnamed/part_000                                                    *)
(***************************************************************************)
\* loadData: no catch; a rejected fetch leaves the route empty.
loadData ==
    /\ component = "part_000"
    /\ ~loaded
    /\ \E resp \in Responses :
         IF mounted /\ resp.ok
         THEN Commit(isPlaying, currentIndex, resp.data, interpolatedPos, timers, TRUE)
         ELSE UNCHANGED <<isPlaying, currentIndex, routeData, interpolatedPos,
                          timers, intervalRef, hasCleanup, rotationAngle>>
    /\ loaded' = TRUE
    /\ last' = "load"
    /\ UNCHANGED <<component, mounted, fresh, ticks, segTicks>>

\* const togglePlay = () => setIsPlaying(!isPlaying)
togglePlay0 ==
    /\ component = "part_000"
    /\ mounted
    /\ Commit(~isPlaying, currentIndex, routeData, interpolatedPos, timers, FALSE)
    /\ last' = ToggleEvent
    /\ fresh' = FALSE
    /\ ticks' = IF fresh /\ loaded /\ ~isPlaying THEN 0 ELSE -1
    /\ segTicks' = segTicks
    /\ UNCHANGED <<component, mounted, loaded>>

resetSimulation0 ==
    /\ component = "part_000"
    /\ mounted
    /\ Commit(FALSE, 0, routeData, interpolatedPos, timers, FALSE)
    /\ last' = "reset"
    /\ fresh' = FALSE
    /\ ticks' = -1
    /\ segTicks' = ResetSegTick(segTicks)
    /\ UNCHANGED <<component, mounted, loaded>>

\* setInterval(() => setCurrentIndex((prev) => prev + 1), 2000)
Tick0(id) ==
    /\ component = "part_000"
    /\ id \in DOMAIN timers
    /\ IF mounted
       THEN Commit(isPlaying, currentIndex + 1, routeData, interpolatedPos, timers, FALSE)
       ELSE UNCHANGED <<isPlaying, currentIndex, routeData, interpolatedPos,
                        timers, intervalRef, hasCleanup, rotationAngle>>
    /\ last' = "tick"
    /\ fresh' = FALSE
    /\ ticks' = CountTick(ticks)
    /\ segTicks' = CountSegTick(segTicks, currentIndex' # currentIndex)
    /\ UNCHANGED <<component, mounted, loaded>>

Ticking0 == \E id \in DOMAIN timers : Tick0(id)

Next ==
    \/ load
    \/ togglePlay
    \/ resetSimulation
    \/ Ticking
    \/ Unmount
    \/ loadData
    \/ togglePlay0
    \/ resetSimulation0
    \/ Ticking0

Spec == Init /\ [][Next]_vars

\* The same component observed with the ticks of each segment counted.
InitSeg ==
    /\ component \in {"VehicleMap", "part_000"}
    /\ mounted = TRUE
    /\ loaded = FALSE
    /\ routeData = <<>>
    /\ currentIndex = 0
    /\ interpolatedPos = ObjectPos(INITIAL_CENTER[1], INITIAL_CENTER[2])
    /\ isPlaying = FALSE
    /\ intervalRef = Null
    /\ timers = <<>>
    /\ hasCleanup = (component = "part_000")
    /\ rotationAngle = ZeroAngle
    /\ last = "mount"
    /\ fresh = TRUE
    /\ ticks = -1
    /\ segTicks = 0

SpecSeg == InitSeg /\ [][Next]_vars

(***************************************************************************)
(* Properties.                                                             *)
(***************************************************************************)
VM == component = "VehicleMap"
N == Len(routeData)

\* The marker position {lat, lng} of waypoint i (JavaScript index).
WaypointPos(i) == ObjectPos(At(routeData, i).lat, At(routeData, i).lng)

\* The last segment has been travelled to its end: a tick has put the
\* marker on the last waypoint and reset the step counter.
LastSegmentDone ==
    /\ VM /\ mounted /\ N >= 2 /\ isPlaying
    /\ last = "tick"
    /\ currentIndex = N - 2
    /\ interpolatedPos = WaypointPos(N - 1)
    /\ \E id \in DOMAIN timers : timers[id].step = 0

\* C1: once the last segment has completed, every further Tick while
\* Playing leaves currentIndex and the marker position unchanged.
C1_HaltsAfterLastSegment ==
    [][ (LastSegmentDone /\ last' = "tick")
            => /\ currentIndex' = currentIndex
               /\ interpolatedPos' = interpolatedPos ]_vars

\* The end of the route as C2 describes it: the last segment is current and
\* the marker is on the last waypoint.
AtRouteEnd == currentIndex = N - 2 /\ interpolatedPos = WaypointPos(N - 1)

\* C2 (as stated): from the initial Stopped state, Start and then exactly
\* steps * (N-1) Ticks reach currentIndex = N-2 with the marker on
\* route[N-1], and no smaller number of Ticks reaches it.
C2_EndAfterExactlyAllTicks ==
    (VM /\ N >= 2 /\ ticks >= 0)
        => /\ ticks = steps * (N - 1) => AtRouteEnd
           /\ ticks < steps * (N - 1) => ~AtRouteEnd

\* C2 (amended): the same, where no smaller number of Ticks reaches it is
\* claimed for routes whose last two waypoints differ.
C2_EndAfterAllTicks ==
    (VM /\ N >= 2 /\ ticks >= 0)
        => /\ ticks = steps * (N - 1) => AtRouteEnd
           /\ (ticks < steps * (N - 1) /\ At(routeData, N - 2) # At(routeData, N - 1))
                  => ~AtRouteEnd

C2_Witness ==
    /\ VM /\ N >= 3 /\ ticks = steps * (N - 1)
    /\ At(routeData, N - 2) # At(routeData, N - 1)
    /\ AtRouteEnd

\* C3: currentIndex is never negative, never exceeds len(route)-2 on a
\* route of two or more waypoints, and is 0 on a shorter route.
C3_IndexInRange ==
    VM => /\ currentIndex >= 0
          /\ N >= 2 => currentIndex <= N - 2
          /\ N < 2 => currentIndex = 0

\* The updater has run at the end of the route, where it must keep the index.
C3_Witness == LastSegmentDone /\ N >= 3

\* C4: Reset in any state yields currentIndex = 0, no progress (no armed
\* timer, so no step count), isPlaying = false and the marker on route[0]
\* when the route is non-empty; the next Start arms the one timer on the
\* segment route[0] -> route[1] at step 0.
C4_ResetYieldsInitial ==
    [][ /\ (VM /\ last' = "reset")
            => /\ currentIndex' = 0
               /\ isPlaying' = FALSE
               /\ timers' = <<>>
               /\ N > 0 => interpolatedPos' = WaypointPos(0)
        /\ (VM /\ last = "reset" /\ last' = "start" /\ N >= 2)
            => /\ isPlaying'
               /\ currentIndex' = 0
               /\ Cardinality(DOMAIN timers') = 1
               /\ \A id \in DOMAIN timers' :
                    timers'[id] = [start |-> At(routeData, 0),
                                   end |-> At(routeData, 1),
                                   n |-> N, step |-> 0] ]_vars

\* A Start after a Reset that was issued past the first segment.
C4_Witness ==
    /\ VM /\ last = "start" /\ N >= 3 /\ currentIndex = 0
    /\ rotationAngle # ZeroAngle
    /\ interpolatedPos = WaypointPos(0)
    /\ timers # <<>>

\* The marker is k steps into the current segment.
OnSegmentAt(pos, k) ==
    /\ Defined(routeData, currentIndex) /\ Defined(routeData, currentIndex + 1)
    /\ pos = Interpolate(At(routeData, currentIndex),
                         At(routeData, currentIndex + 1), k)

\* C5: Pause changes neither currentIndex nor the marker position, the
\* Start that follows changes neither, and the first Tick after it moves
\* the marker one step on from where it was paused.
C5_PauseFreezesProgress ==
    [][ /\ (VM /\ last' = "pause")
            => currentIndex' = currentIndex /\ interpolatedPos' = interpolatedPos
        /\ (VM /\ last = "pause" /\ last' = "resume")
            => currentIndex' = currentIndex /\ interpolatedPos' = interpolatedPos
        /\ (VM /\ last = "resume" /\ last' = "tick"
               /\ \E k \in 1..(steps - 1) : OnSegmentAt(interpolatedPos, k))
            => \E k \in 1..(steps - 1) :
                   /\ OnSegmentAt(interpolatedPos, k)
                   /\ interpolatedPos' =
                          Interpolate(At(routeData, currentIndex),
                                      At(routeData, currentIndex + 1), k + 1) ]_vars

\* C6: Start leaves isPlaying false when the route has fewer than two
\* waypoints or the last segment is current with the marker at its end.
C6_StartRefused ==
    [][ (/\ VM /\ ~isPlaying /\ last' \in {"start", "resume"}
         /\ (N < 2 \/ AtRouteEnd))
            => isPlaying' = FALSE ]_vars

\* C7: at most one interval is armed at any time, and it is the one
\* intervalRef holds.
C7_AtMostOneTimer ==
    /\ Cardinality(DOMAIN timers) <= 1
    /\ DOMAIN timers \subseteq {intervalRef}

\* A timer armed by a resume, after an earlier one was cancelled.
C7_Witness ==
    /\ last = "resume" /\ Cardinality(DOMAIN timers) = 1 /\ currentIndex >= 1

C9_LoadedRouteNonEmpty ==
    (VM /\ mounted /\ loaded) => routeData # <<>>

\* C10: while the marker travels segment i (a tick has moved it along the
\* segment whose timer is armed), its rotation is the bearing from
\* route[i] to route[i+1].
C10_HeadingAlongSegment ==
    (/\ VM /\ mounted /\ last = "tick"
     /\ MarkerRendered(component, routeData, interpolatedPos)
     /\ \E id \in DOMAIN timers : timers[id].step >= 1)
        => rotationAngle = getRotationAngle(At(routeData, currentIndex),
                                            At(routeData, currentIndex + 1))

\* C11: when the two waypoints the rotation effect reads are identical,
\* the marker keeps the heading it had.
C11_ZeroLengthKeepsHeading ==
    [][ (/\ VM /\ mounted
         /\ currentIndex' # currentIndex /\ currentIndex' >= 1
         /\ MarkerRendered(component, routeData', interpolatedPos')
         /\ At(routeData', currentIndex' - 1) = At(routeData', currentIndex'))
            => rotationAngle' = rotationAngle ]_vars

\* The two numbers a stored position holds, as <<lat, lng>>.
LatLng(pos) == <<pos.a, pos.b>>

\* C12: within segment i, k Ticks (1 <= k <= steps) after the segment was
\* entered the marker is at route[i] + (route[i+1] - route[i]) * k / steps
\* in lat and lng (the midpoint at k = steps / 2, route[i+1] at k = steps),
\* and on entering the segment, before its first Tick, it is at route[i].
C12_PositionAfterKTicks ==
    (VM /\ mounted /\ N >= 2 /\ segTicks >= 0)
        => LET from == At(routeData, currentIndex)
               to   == At(routeData, currentIndex + 1)
           IN  /\ segTicks = 0
                      => LatLng(interpolatedPos) = <<from.lat, from.lng>>
               /\ segTicks \in 1..steps
                      => LatLng(interpolatedPos) =
                             LatLng(Interpolate(from, to, segTicks))
               /\ 2 * segTicks = steps
                      => /\ 2 * interpolatedPos.a = from.lat + to.lat
                         /\ 2 * interpolatedPos.b = from.lng + to.lng
               /\ segTicks = steps
                      => LatLng(interpolatedPos) = <<to.lat, to.lng>>

\* C13: with a non-empty route, the traveled line is the waypoints
\* route[0..currentIndex] followed by the marker position, so it ends where
\* the marker is.  (A marker standing on route[currentIndex] adds no vertex
\* of its own to the line drawn.)
C13_TraveledPathEndsAtMarker ==
    (/\ VM /\ mounted /\ N > 0
     /\ MarkerRendered(component, routeData, interpolatedPos))
        => LET path == TraveledPath(routeData, currentIndex)
           IN  /\ Len(path) >= currentIndex + 1
               /\ \A j \in 1..(currentIndex + 1) :
                      path[j] = <<routeData[j].lat, routeData[j].lng>>
               /\ path[Len(path)] = MarkerPosition(interpolatedPos)

\* C14: after the load has stored a non-empty route and before any Start,
\* Reset or Tick, the stored position has lat and lng, equal to those of
\* route[0], so the Marker is rendered.
C14_LoadedMarkerAtFirstWaypoint ==
    (VM /\ mounted /\ loaded /\ fresh /\ N > 0)
        => /\ HasLatLng(interpolatedPos)
           /\ interpolatedPos = WaypointPos(0)
           /\ MarkerRendered(component, routeData, interpolatedPos)

\* The one armed interval is on segment 0 at step 0.
ArmedOnFirstSegment(tm, rt) ==
    /\ Cardinality(DOMAIN tm) = 1
    /\ \A id \in DOMAIN tm :
         tm[id] = [start |-> At(rt, 0), end |-> At(rt, 1),
                   n |-> Len(rt), step |-> 0]

\* C15: a Start before the load settles sets isPlaying with no timer armed;
\* a load of two or more waypoints while isPlaying arms the timer on
\* segment 0 at step 0 (an armed interval is all a Tick needs, so playback
\* goes on with no command); and the load changes neither currentIndex nor
\* isPlaying.
C15_StartBeforeLoad ==
    [][ /\ (VM /\ ~loaded /\ ~isPlaying /\ last' \in {"start", "resume"})
            => isPlaying' /\ timers' = <<>>
        /\ (VM /\ mounted /\ isPlaying /\ last' = "load" /\ Len(routeData') >= 2)
            => /\ currentIndex' = 0
               /\ ArmedOnFirstSegment(timers', routeData')
        /\ (VM /\ last' = "load")
            => currentIndex' = currentIndex /\ isPlaying' = isPlaying ]_vars

\* Playback under way on a route that arrived while isPlaying was set.
C15_Witness ==
    /\ VM /\ mounted /\ last = "load" /\ isPlaying /\ N >= 2
    /\ ArmedOnFirstSegment(timers, routeData)

\* C16: a Reset issued at currentIndex >= 1 leaves the marker with the
\* heading of the initial state.
C16_ResetRestoresHeading ==
    [][ (VM /\ mounted /\ currentIndex >= 1 /\ last' = "reset")
            => rotationAngle' = ZeroAngle ]_vars

P0 == component = "part_000"

\* C17: in part_000, on a non-empty route currentIndex stays within
\* [0, len(route)-1]; at len(route)-1 no timer is armed, and from there
\* only Reset changes currentIndex.
C17_WaypointIndexInRange ==
    [][ (P0 /\ Len(routeData') > 0)
            => /\ currentIndex' >= 0
               /\ currentIndex' <= Len(routeData') - 1
               /\ currentIndex' = Len(routeData') - 1 => timers' = <<>>
               /\ (N > 0 /\ currentIndex = N - 1 /\ currentIndex' # currentIndex)
                      => last' = "reset" ]_vars

\* The last waypoint reached by a tick while playing.
C17_Witness ==
    /\ P0 /\ mounted /\ N >= 3 /\ currentIndex = N - 1
    /\ last = "tick" /\ isPlaying /\ timers = <<>>
====
